---- MODULE Spec2Model ----
(***************************************************************************)
(* A model of the trading_calendar generator: src/generate.py (the run,    *)
(* the merge of announcement rows, the single-shot calendar retry),        *)
(* src/lib/jquants.py (the session and the paginated resource methods)     *)
(* and src/lib/jpx.py (the spreadsheet fallback).                          *)
(*                                                                         *)
(* Python strings the code looks into (dates, codes, error messages, uids) *)
(* are sequences of one-character strings, so that formatting, parsing and *)
(* the regular-expression search are computed, not assumed.                *)
(***************************************************************************)
EXTENDS Integers, Sequences, FiniteSets, TLC

(***************************************************************************)
(* Bounds of the model.                                                    *)
(***************************************************************************)
\* most pages the server chains for one resource call
MaxPages == 2
\* most clock ticks during one run
MaxTicks == 2
\* hours one clock tick advances
TickHours == 12
\* most rows of the primary / fallback input of the merge specification
MaxPrimary == 2
MaxFallback == 2
\* threads that call the constructor jquants(), and most calls by one thread
NumThreads == 2
MaxInvocations == 2
\* most rows of the calendar list of the holiday specification
MaxCalendar == 2
\* most spreadsheets of the listing page in the batch specification
MaxSheets == 2
\* most blanks on either side of '~' in the messages of the extraction specification
MaxSpaces == 1
\* most resource-method calls, and most advances of the clock, in the session specification
MaxChecks == 3
MaxSessionTicks == 4

(***************************************************************************)
(* Characters and strings.                                                 *)
(***************************************************************************)
Digits == <<"0", "1", "2", "3", "4", "5", "6", "7", "8", "9">>

IsDigit(c) == \E n \in 1..10 : Digits[n] = c

DigitVal(c) == (CHOOSE n \in 1..10 : Digits[n] = c) - 1

DigitChar(n) == Digits[n + 1]

\* \s of the pattern, restricted to the ASCII whitespace the model's messages use
IsSpace(c) == c \in {" ", "\t", "\n"}

\* s[a..b] as Python's s[a-1:b]
Sub(s, a, b) == SubSeq(s, a, b)

\* None of Python, and NaN / a missing key of a row: one-element sequences no
\* string of characters equals
None == <<"None">>
NoVal == <<"NaN">>

\* Python values of more than one type: an int, a str, a bool, or a missing key
PyInt(n) == [int |-> n]
PyStr(s) == [str |-> s]
PyBool(b) == [bool |-> b]
Missing == [missing |-> TRUE]

(***************************************************************************)
(* datetime: strftime("%Y-%m-%d"), strptime(s, "%Y-%m-%d"), timedelta.     *)
(***************************************************************************)
IsLeap(y) == (y % 4 = 0 /\ y % 100 # 0) \/ y % 400 = 0

DaysInMonth(y, m) ==
    IF m = 2 THEN (IF IsLeap(y) THEN 29 ELSE 28)
    ELSE IF m \in {4, 6, 9, 11} THEN 30 ELSE 31

Pad2(n) == <<DigitChar(n \div 10), DigitChar(n % 10)>>

Pad4(n) == <<DigitChar(n \div 1000), DigitChar((n \div 100) % 10),
             DigitChar((n \div 10) % 10), DigitChar(n % 10)>>

\* dt.strftime("%Y-%m-%d") for a year of four digits
Strftime(dt) == Pad4(dt.y) \o <<"-">> \o Pad2(dt.m) \o <<"-">> \o Pad2(dt.d)

\* date.toordinal(): the days from 0001-01-01, counted from 1
DaysBeforeYear(y) == (y - 1) * 365 + (y - 1) \div 4 - (y - 1) \div 100 + (y - 1) \div 400

RECURSIVE DaysBeforeMonth(_, _)
DaysBeforeMonth(y, m) ==
    IF m = 1 THEN 0 ELSE DaysBeforeMonth(y, m - 1) + DaysInMonth(y, m - 1)

ToOrdinal(dt) == DaysBeforeYear(dt.y) + DaysBeforeMonth(dt.y, dt.m) + dt.d

\* date.fromordinal(n)
FromOrdinal(n) ==
    LET y == CHOOSE c \in (n \div 366)..(n \div 365 + 1) :
                 DaysBeforeYear(c) < n /\ n <= DaysBeforeYear(c + 1)
        r == n - DaysBeforeYear(y)
        m == CHOOSE c \in 1..12 :
                 DaysBeforeMonth(y, c) < r /\ r <= DaysBeforeMonth(y, c) + DaysInMonth(y, c)
    IN [y |-> y, m |-> m, d |-> r - DaysBeforeMonth(y, m)]

\* dt + timedelta(days=n)
AddDays(dt, n) == FromOrdinal(ToOrdinal(dt) + n)

ParseFail == [y |-> 0, m |-> 0, d |-> 0]

AllDigits(s) == \A i \in 1..Len(s) : IsDigit(s[i])

RECURSIVE NumVal(_)
NumVal(s) == IF s = <<>> THEN 0
             ELSE 10 * NumVal(Sub(s, 1, Len(s) - 1)) + DigitVal(s[Len(s)])

\* the %m directive: 1[0-2] | 0[1-9] | [1-9]
MonthField(s) ==
    /\ Len(s) \in {1, 2}
    /\ AllDigits(s)
    /\ NumVal(s) \in 1..12

\* the %d directive: 3[01] | [12]\d | 0[1-9] | [1-9] | " "[1-9]
DayField(s) ==
    \/ Len(s) \in {1, 2} /\ AllDigits(s) /\ NumVal(s) \in 1..31
    \/ Len(s) = 2 /\ s[1] = " " /\ IsDigit(s[2]) /\ s[2] # "0"

DayVal(s) == IF s[1] = " " THEN DigitVal(s[2]) ELSE NumVal(s)

\* datetime.strptime(s, "%Y-%m-%d"): the date, or ParseFail where Python raises
\* ValueError (no match, unconverted data, day out of range, year 0)
Strptime(s) ==
    IF Len(s) < 8 \/ ~AllDigits(Sub(s, 1, 4)) \/ s[5] # "-" THEN ParseFail
    ELSE LET rest == Sub(s, 6, Len(s))
             dash == {i \in 1..Len(rest) : rest[i] = "-"}
         IN IF dash = {} THEN ParseFail
            ELSE LET p  == CHOOSE i \in dash : \A j \in dash : i <= j
                     ms == Sub(rest, 1, p - 1)
                     ds == Sub(rest, p + 1, Len(rest))
                 IN IF ~MonthField(ms) \/ ds = <<>> \/ ~DayField(ds) THEN ParseFail
                    ELSE LET y == NumVal(Sub(s, 1, 4))
                             m == NumVal(ms)
                             d == DayVal(ds)
                         IN IF y < 1 \/ d > DaysInMonth(y, m) THEN ParseFail
                            ELSE [y |-> y, m |-> m, d |-> d]

\* the order of YYYY-MM-DD strings: Python's str comparison, "-" before digits
CharRank(c) == IF IsDigit(c) THEN DigitVal(c) + 1 ELSE 0

DateStrLE(a, b) ==
    \/ a = b
    \/ \E i \in 1..Len(a) :
           /\ i <= Len(b)
           /\ \A j \in 1..(i - 1) : a[j] = b[j]
           /\ CharRank(a[i]) < CharRank(b[i])

(***************************************************************************)
(* extract_subscription_period: re.search of                               *)
(*   (\d{4}-\d{2}-\d{2})\s*~\s*(\d{4}-\d{2}-\d{2})                          *)
(***************************************************************************)
\* \d{4}-\d{2}-\d{2} matches s[i..i+9]
DateShapeAt(s, i) ==
    /\ i >= 1
    /\ i + 9 <= Len(s)
    /\ \A k \in {0, 1, 2, 3, 5, 6, 8, 9} : IsDigit(s[i + k])
    /\ s[i + 4] = "-"
    /\ s[i + 7] = "-"

\* where \s* stops when it starts at i (greedy; the next token is never a space)
SkipSpace(s, i) ==
    CHOOSE j \in i..(Len(s) + 1) :
        /\ \A k \in i..(j - 1) : IsSpace(s[k])
        /\ (j = Len(s) + 1 \/ ~IsSpace(s[j]))

\* a faulty variant: no whitespace is allowed before '~'
TildeAfterNoSpace(s, i) == i + 10

TildeAfter(s, i) == SkipSpace(s, i + 10)

SecondDateAt(s, i) == SkipSpace(s, TildeAfter(s, i) + 1)

MatchAt(s, i) ==
    /\ DateShapeAt(s, i)
    /\ TildeAfter(s, i) <= Len(s)
    /\ s[TildeAfter(s, i)] = "~"
    /\ DateShapeAt(s, SecondDateAt(s, i))

extract_subscription_period(error_message) ==
    LET starts == {i \in 1..Len(error_message) : MatchAt(error_message, i)}
    IN IF starts = {} THEN <<None, None>>
       ELSE LET i == CHOOSE a \in starts : \A b \in starts : a <= b
                k == SecondDateAt(error_message, i)
            IN <<Sub(error_message, i, i + 9), Sub(error_message, k, k + 9)>>

(***************************************************************************)
(* Rows, pandas frames and calendar events.                                *)
(***************************************************************************)
RECURSIVE Flatten(_)
\* pd.concat of frames / list concatenation of their records
Flatten(ss) == IF ss = <<>> THEN <<>> ELSE Head(ss) \o Flatten(Tail(ss))

\* a faulty variant: rows are compared by Code alone
DedupKeyCodeOnly(row) == <<row.Code>>

\* the value drop_duplicates compares: subset=['Code', 'Date']
DedupKey(row) == <<row.Code, row.Date>>

\* a faulty variant: keep='last'
KeptPositionsLast(rows) ==
    {i \in 1..Len(rows) : \A j \in (i + 1)..Len(rows) : DedupKey(rows[j]) # DedupKey(rows[i])}

\* df.drop_duplicates(subset=['Code', 'Date'], keep='first'), as the kept positions
KeptPositions(rows) ==
    {i \in 1..Len(rows) : \A j \in 1..(i - 1) : DedupKey(rows[j]) # DedupKey(rows[i])}

RECURSIVE SelectPositions(_, _, _)
SelectPositions(rows, keep, i) ==
    IF i > Len(rows) THEN <<>>
    ELSE (IF i \in keep THEN <<rows[i]>> ELSE <<>>) \o SelectPositions(rows, keep, i + 1)

DropDuplicates(rows) == SelectPositions(rows, KeptPositions(rows), 1)

\* a faulty variant: the fallback frame is concatenated first, as the comment on line 37 says
ConcatOrderFallbackFirst(jq_rows, jpx_rows) == jpx_rows \o jq_rows

\* the order in which add_announcement_events concatenates the two frames
ConcatOrder(jq_rows, jpx_rows) == jq_rows \o jpx_rows

\* generate.py 28-41: announcement_list
MergedAnnouncements(jq_rows, jpx_rows) == DropDuplicates(ConcatOrder(jq_rows, jpx_rows))

\* the literal "[Kessan] " stands for the source's title prefix (two kanji in brackets)
TitlePrefix == <<"[", "K", "e", "s", "s", "a", "n", "]", " ">>
AnnouncementInfix == <<"-", "a", "n", "n", "o", "u", "n", "c", "e", "m", "e", "n", "t", "-">>
HolidayPrefix == <<"h", "o", "l", "i", "d", "a", "y", "-">>
\* stands for the source's fixed holiday title
HolidayTitle == <<"[", "K", "y", "u", "j", "o", "]">>

\* " ".join(summary_parts)
AnnouncementSummary(item) ==
    TitlePrefix \o item.CompanyName \o <<" ", "(">> \o item.Code \o <<")">>
    \o (IF item.FiscalQuarter # <<>> THEN <<" ">> \o item.FiscalQuarter ELSE <<>>)
    \o (IF item.FiscalYear # <<>> THEN <<" ">> \o item.FiscalYear ELSE <<>>)

build_event(summary, dt, uid) == [name |-> summary, begin |-> dt, uid |-> uid]

\* item.get("Date") or item.get("AnnouncementDate", ""). A NoVal AnnouncementDate
\* is a missing key (read as "") or the NaN pandas fills in for a column the
\* row's source lacks (truthy, and a TypeError in strptime): no event either way
AnnouncementDateStr(item) ==
    IF item.Date # <<>> THEN item.Date ELSE item.AnnouncementDate

Skipped == [skipped |-> TRUE]

\* generate.py 45-68 for one item: the event passed to c.events.add, or Skipped
\* (date_str falsy; strptime raised ValueError, or TypeError for a NaN)
AnnouncementOutcome(item) ==
    LET date_str == AnnouncementDateStr(item)
    IN IF date_str = <<>> \/ date_str = NoVal THEN Skipped
       ELSE IF Strptime(date_str) = ParseFail THEN Skipped
       ELSE build_event(AnnouncementSummary(item), Strptime(date_str),
                        item.Code \o AnnouncementInfix \o date_str)

\* the outcome of every item of announcement_list, in order
AnnouncementOutcomes(list) == [i \in 1..Len(list) |-> AnnouncementOutcome(list[i])]

\* a faulty variant: c.events keeps every event it is given
CalendarAddAll(evs, e) == evs \cup {e}

\* c.events.add(e): c.events is a Python set and ics compares and hashes events
\* by uid, so an event whose uid is already present is not added
CalendarAdd(evs, e) == IF \E x \in evs : x.uid = e.uid THEN evs ELSE evs \cup {e}

RECURSIVE AddOutcomesUntilSkipped(_, _)
\* a faulty variant: the first row that gives no event ends the loop
AddOutcomesUntilSkipped(evs, outs) ==
    IF outs = <<>> \/ Head(outs) = Skipped THEN evs
    ELSE AddOutcomesUntilSkipped(CalendarAdd(evs, Head(outs)), Tail(outs))

RECURSIVE AddOutcomes(_, _)
AddOutcomes(evs, outs) ==
    IF outs = <<>> THEN evs
    ELSE AddOutcomes(IF Head(outs) = Skipped THEN evs ELSE CalendarAdd(evs, Head(outs)),
                     Tail(outs))

\* item.get(key, default) of the trading-calendar rows
HolidayDivisionOf(item) ==
    IF item.HolidayDivision = Missing THEN PyInt(1) ELSE item.HolidayDivision
IsTradingDayOf(item) ==
    IF item.IsTradingDay = Missing THEN PyBool(TRUE) ELSE item.IsTradingDay
HolidayDateOf(item) == IF item.Date = NoVal THEN <<>> ELSE item.Date

\* Python's v == 0 (False == 0 holds, "0" == 0 does not) and not v
PyEqZero(v) == v = PyInt(0) \/ v = PyBool(FALSE)
PyNot(v) == v = PyBool(FALSE) \/ v = PyInt(0) \/ v = PyStr(<<>>)

\* a faulty variant: both conditions are required
IsHolidayRowBoth(item) ==
    PyEqZero(HolidayDivisionOf(item)) /\ PyNot(IsTradingDayOf(item))

\* generate.py 127: holiday_division == 0 or not is_trading_day
IsHolidayRow(item) ==
    PyEqZero(HolidayDivisionOf(item)) \/ PyNot(IsTradingDayOf(item))

\* generate.py 122-135 for one item
HolidayOutcome(item) ==
    LET date_str == HolidayDateOf(item)
    IN IF date_str = <<>> \/ ~IsHolidayRow(item) THEN Skipped
       ELSE IF Strptime(date_str) = ParseFail THEN Skipped
       ELSE build_event(HolidayTitle, Strptime(date_str), HolidayPrefix \o date_str)

HolidayOutcomes(list) == [i \in 1..Len(list) |-> HolidayOutcome(list[i])]

(***************************************************************************)
(* The data the model draws its inputs from.                               *)
(***************************************************************************)
BoundedSeqs(S, n) == UNION {[1..k -> S] : k \in 0..n}

Code1 == <<"1", "3", "0", "1">>
Code2 == <<"7", "2", "0", "3">>
DateA == Strftime([y |-> 2024, m |-> 5, d |-> 10])
DateB == Strftime([y |-> 2024, m |-> 11, d |-> 5])
BadDate == <<"i", "n", "v", "a", "l", "i", "d", "-", "d", "a", "t", "e">>
Quarter == <<"2", "Q">>
Year2024 == <<"2", "0", "2", "4">>

\* a row of the primary API's announcement resource; Date is "" while the date
\* is undecided
PrimaryRow(code, date, ann, fq) ==
    [Code |-> code, CompanyName |-> <<"P">>, Date |-> date, AnnouncementDate |-> ann,
     FiscalQuarter |-> fq, FiscalYear |-> Year2024, source |-> "j-quants"]

\* a row _parse_excel builds: Date and AnnouncementDate are the same strftime
FallbackRow(code, dt) ==
    [Code |-> code, CompanyName |-> <<"F">>, Date |-> Strftime(dt),
     AnnouncementDate |-> Strftime(dt), FiscalQuarter |-> Quarter,
     FiscalYear |-> <<>>, source |-> "jpx-excel"]

PrimaryRows ==
    {PrimaryRow(c, d[1], d[2], <<>>) :
        c \in {Code1, Code2},
        d \in {<<DateA, NoVal>>, <<BadDate, NoVal>>, <<<<>>, NoVal>>, <<<<>>, DateB>>}}

FallbackRows ==
    {FallbackRow(c, dt) : c \in {Code1, Code2},
                          dt \in {[y |-> 2024, m |-> 5, d |-> 10], [y |-> 2024, m |-> 11, d |-> 5]}}

\* what one spreadsheet contributes: _download_excel and _parse_excel both answer
\* a failure with an empty frame
SheetFails == [ok |-> FALSE, rows |-> <<>>]
SheetA == [ok |-> TRUE, rows |-> <<FallbackRow(Code1, [y |-> 2024, m |-> 5, d |-> 10])>>]
SheetB == [ok |-> TRUE, rows |-> <<FallbackRow(Code1, [y |-> 2024, m |-> 5, d |-> 10]),
                                   FallbackRow(Code2, [y |-> 2024, m |-> 11, d |-> 5])>>]

\* a later spreadsheet: the (Code, Date) of SheetA again under another company
\* name, after a second date for the same code
SheetC == [ok |-> TRUE,
           rows |-> <<FallbackRow(Code1, [y |-> 2024, m |-> 11, d |-> 5]),
                      [FallbackRow(Code1, [y |-> 2024, m |-> 5, d |-> 10])
                           EXCEPT !.CompanyName = <<"G">>]>>]

\* a spreadsheet whose download or parse raises although the file has a row, and
\* one that parses to no valid row
SheetBroken == [ok |-> FALSE, rows |-> <<FallbackRow(Code2, [y |-> 2024, m |-> 5, d |-> 10])>>]
SheetEmpty == [ok |-> TRUE, rows |-> <<>>]

\* the listing page (reachable or not) and the spreadsheets behind its links, in
\* the order list(set(...)) happens to give
JpxScenarios ==
    {[page |-> FALSE, sheets |-> <<SheetA>>],
     [page |-> TRUE, sheets |-> <<>>],
     [page |-> TRUE, sheets |-> <<SheetFails>>],
     [page |-> TRUE, sheets |-> <<SheetA>>],
     [page |-> TRUE, sheets |-> <<SheetFails, SheetB>>],
     [page |-> TRUE, sheets |-> <<SheetB, SheetA>>]}

RECURSIVE ParsedFramesUntilFailure(_)
\* a faulty variant: the first spreadsheet that fails ends the loop
ParsedFramesUntilFailure(sheets_) ==
    IF sheets_ = <<>> \/ ~Head(sheets_).ok THEN <<>>
    ELSE (IF Head(sheets_).rows # <<>> THEN <<Head(sheets_).rows>> ELSE <<>>)
         \o ParsedFramesUntilFailure(Tail(sheets_))

RECURSIVE ParsedFrames(_)
\* jpx.py 218-224: the non-empty parsed frames, in processing order
ParsedFrames(sheets) ==
    IF sheets = <<>> THEN <<>>
    ELSE (IF Head(sheets).ok /\ Head(sheets).rows # <<>> THEN <<Head(sheets).rows>> ELSE <<>>)
         \o ParsedFrames(Tail(sheets))

\* JPX.get_fins_announcement: the result list
JPXGetFinsAnnouncement(sc) ==
    IF ~sc.page \/ sc.sheets = <<>> THEN <<>>
    ELSE DropDuplicates(Flatten(ParsedFrames(sc.sheets)))

\* trading-calendar rows
Holiday1 == [Date |-> Strftime([y |-> 2024, m |-> 1, d |-> 1]),
             HolidayDivision |-> PyInt(0), IsTradingDay |-> PyBool(FALSE)]
Trading1 == [Date |-> Strftime([y |-> 2024, m |-> 1, d |-> 4]),
             HolidayDivision |-> PyInt(1), IsTradingDay |-> PyBool(TRUE)]

\* a holiday row whose date does not parse (tests: "invalid-date") and a second holiday
BadHoliday == [Date |-> BadDate, HolidayDivision |-> PyInt(0), IsTradingDay |-> PyBool(FALSE)]
Holiday2 == [Date |-> Strftime([y |-> 2024, m |-> 1, d |-> 2]),
             HolidayDivision |-> PyInt(0), IsTradingDay |-> PyBool(FALSE)]

\* the rows add_holiday_events is tried on: dates valid, unparseable and empty;
\* HolidayDivision an int, the string "0" or absent; IsTradingDay a bool or absent
HolidayDates == {Holiday1.Date, Trading1.Date, BadDate, <<>>}
CalendarRows ==
    {[Date |-> d, HolidayDivision |-> h, IsTradingDay |-> b] :
        d \in HolidayDates,
        h \in {PyInt(0), PyInt(1), PyStr(<<"0">>), Missing},
        b \in {PyBool(TRUE), PyBool(FALSE), Missing}}

\* the rows one page of a resource may carry
Payloads(method) ==
    IF method = "fins_announcement"
    THEN {<<>>, <<PrimaryRow(Code1, DateA, NoVal, <<>>), PrimaryRow(Code2, <<>>, NoVal, Quarter)>>}
    ELSE {<<>>, <<Holiday1, Trading1>>}

\* error messages of the server, each with the range it reports (if it does)
Chars_dates == <<"d", "a", "t", "e", "s", ":", " ">>
Sub2023 == Strftime([y |-> 2023, m |-> 9, d |-> 10])
Sub2025 == Strftime([y |-> 2025, m |-> 9, d |-> 10])
Sub2024a == Strftime([y |-> 2024, m |-> 6, d |-> 1])
Sub2024b == Strftime([y |-> 2024, m |-> 12, d |-> 31])

MsgWide == [text |-> Chars_dates \o Sub2023 \o <<" ", "~", " ">> \o Sub2025 \o <<".">>,
            range |-> <<Sub2023, Sub2025>>]
MsgTight == [text |-> Sub2024a \o <<"~">> \o Sub2024b, range |-> <<Sub2024a, Sub2024b>>]
MsgOther == [text |-> <<"e", "r", "r", "o", "r">>, range |-> <<>>]
MsgHalf == [text |-> Chars_dates \o Sub2023 \o <<" ", "~", " ", "?">>, range |-> <<>>]

Messages == {MsgWide, MsgTight, MsgOther, MsgHalf}

\* the days on which the model's runs start
Todays == {[y |-> 2024, m |-> 5, d |-> 20], [y |-> 2026, m |-> 11, d |-> 2]}

(***************************************************************************)
(* HTTP responses: the request raised, or a status and a body. A body is    *)
(* not JSON, an error object {"message": ...} without the resource's key,  *)
(* or a page {<key>: rows[, "pagination_key": ...]}.                       *)
(***************************************************************************)
Raised == [kind |-> "exc"]

Responses(bodies) ==
    {Raised} \cup {[kind |-> "resp", status |-> st, body |-> b] : st \in {200, 400}, b \in bodies}

\* a body without "pagination_key", and the keys the server hands out
NoCursor == "absent"
\* the n-th page of a chain carries the n-th key
Cursors == <<"k1", "k2", "k3">>

NoJson == [t |-> "nojson"]
ErrBody(m) == [t |-> "err", message |-> m]
PageBody(rows, next) == [t |-> "page", rows |-> rows, next |-> next]

ClientBodies(method, n) ==
    {NoJson, ErrBody(MsgOther)}
        \cup {PageBody(p, k) : p \in Payloads(method), k \in {NoCursor, Cursors[n]}}

RawBodies == {NoJson, PageBody(<<>>, NoCursor)} \cup {ErrBody(m) : m \in Messages}

(***************************************************************************)
(* The state.                                                              *)
(***************************************************************************)
VARIABLES
    pc,                 \* where the run is
    creds,              \* which of the two environment values are set
    today,              \* datetime.now() of get_date_range
    now,                \* the clock, in hours
    jq,                 \* the session: isEnable, tokens, expiry, headers
    minted,             \* id tokens the server has minted
    authReqs,           \* requests sent to the token endpoints
    apiReqs,            \* requests sent to resource endpoints by resource methods
    call,               \* the resource method in progress
    jq_list,            \* add_announcement_events: primary rows
    jpx_list,           \* add_announcement_events: fallback rows
    jpxInvoked,         \* JPX.get_fins_announcement was called
    announcement_list,  \* add_announcement_events: merged rows
    added,              \* per merged row: the event given to c.events.add, or Skipped
    events,             \* c.events
    asked,              \* get_trading_calendar_with_retry: (from_date, to_date)
    calls,              \* arguments of its structured calendar calls, in order
    results,            \* the lists those calls returned, in order
    rawReqs,            \* raw re-issue requests it sent
    rawResp,            \* the response to the raw re-issue
    subscription,       \* what extract_subscription_period returned
    calendar_list,      \* what get_trading_calendar_with_retry returned
    returned,           \* get_trading_calendar_with_retry has returned
    file,               \* the calendar file
    crash,              \* the exception that reached the top level
    fresh,              \* the last _refresh_token_if_needed and the requests since
    ctor,               \* the class jquants: _instance, _lock, threads constructing
    sheets              \* the spreadsheets of the listing page in processing order, where
                        \* the specification fixes them beforehand (SpecBatch)

vars == <<pc, creds, today, now, jq, minted, authReqs, apiReqs, call, jq_list, jpx_list,
          jpxInvoked, announcement_list, added, events, asked, calls, results, rawReqs,
          rawResp, subscription, calendar_list, returned, file, crash, fresh, ctor,
          sheets>>

(***************************************************************************)
(* The session (lib/jquants.py).                                           *)
(***************************************************************************)
\* timedelta(hours=24)
TokenTTLHours == 24
\* token_expires_at = None
NoExpiry == -1

\* __init__ before _set_token: empty tokens, no expiry, headers {}
BlankSession ==
    [isEnable |-> FALSE, refresh_token |-> 0, id_token |-> 0,
     token_expires_at |-> NoExpiry, headers |-> 0]

AuthOutcomes == {"ok", "auth_user_fails", "auth_refresh_fails"}

\* requests _set_token posts
SetTokenPosts(c, server) ==
    IF ~c.email \/ ~c.password THEN 0
    ELSE IF server = "auth_user_fails" THEN 1 ELSE 2

\* _set_token and the rest of __init__: the session after construction. id_token
\* n stands for the n-th token minted; headers n for {'Authorization': 'Bearer n'}
Constructed(c, server, t, tok) ==
    IF ~c.email \/ ~c.password THEN BlankSession
    ELSE IF server = "auth_user_fails" THEN BlankSession
    ELSE IF server = "auth_refresh_fails" THEN [BlankSession EXCEPT !.refresh_token = 1]
    ELSE [isEnable |-> TRUE, refresh_token |-> 1, id_token |-> tok,
          token_expires_at |-> t + TokenTTLHours, headers |-> tok]

\* a faulty variant: the check goes on for a session that has no expiry
NeedsRefreshAlways(sess, t) == t >= sess.token_expires_at

\* _refresh_token_if_needed 86, 89: an expiry is stored and it has passed
NeedsRefresh(sess, t) == sess.token_expires_at # NoExpiry /\ t >= sess.token_expires_at

\* _refresh_token_if_needed 90: the requests.post of one check
RefreshPosts(sess, t) == IF NeedsRefresh(sess, t) THEN 1 ELSE 0

\* no _refresh_token_if_needed yet. reqs: the requests sent to the resource
\* endpoints since the last check; unchecked: those sent, so far, with another
\* request and no check just before them; late: those sent after the stored
\* expiry had passed although the last check had found the token in date;
\* foreign: those sent with an Authorization header naming a token other than
\* the stored id_token
NoCheck == [checks |-> 0, needed |-> FALSE, ok |-> FALSE, at |-> 0, before |-> BlankSession,
            posts |-> 0, reqs |-> 0, unchecked |-> 0, late |-> 0, foreign |-> 0]

\* a request to a resource endpoint goes out at time t with the session sess
CountRequest(f, sess, t) ==
    [f EXCEPT !.reqs = f.reqs + 1,
              !.unchecked = f.unchecked + (IF f.reqs >= 1 THEN 1 ELSE 0),
              !.late = f.late + (IF NeedsRefresh(sess, t) /\ ~f.needed THEN 1 ELSE 0),
              !.foreign = f.foreign +
                              (IF sess.headers # 0 /\ sess.headers # sess.id_token THEN 1 ELSE 0)]

\* a faulty variant: a successful exchange leaves the old Authorization header
RefreshedKeepsHeaders(sess, t, ok, tok) ==
    IF NeedsRefresh(sess, t) /\ ok
    THEN [sess EXCEPT !.id_token = tok, !.token_expires_at = t + TokenTTLHours]
    ELSE sess

\* a faulty variant: a failed exchange drops the token it could not renew
RefreshedDropsToken(sess, t, ok, tok) ==
    IF NeedsRefresh(sess, t)
    THEN (IF ok THEN [sess EXCEPT !.id_token = tok, !.token_expires_at = t + TokenTTLHours,
                                  !.headers = tok]
          ELSE [sess EXCEPT !.id_token = 0, !.headers = 0])
    ELSE sess

\* _refresh_token_if_needed: the session after it; a failed exchange changes nothing
Refreshed(sess, t, ok, tok) ==
    IF NeedsRefresh(sess, t) /\ ok
    THEN [sess EXCEPT !.id_token = tok, !.token_expires_at = t + TokenTTLHours,
                      !.headers = tok]
    ELSE sess

(***************************************************************************)
(* The constructor jquants() (lib/jquants.py 19-42): type.__call__ runs    *)
(* __new__ and then __init__ on what it returned. Threads interleave       *)
(* between the steps below; the body of the with-block is one step.        *)
(***************************************************************************)
Threads == 1..NumThreads

ThreadIdle == [pc |-> "idle", n |-> 0, ref |-> 0, got |-> <<>>, res |-> FALSE]

\* the class before any jquants(): _instance is None (0), _lock free (0).
\* initialized: hasattr(instance, '_initialized'); hasEnable: the instance has
\* the attribute isEnable; setTokenRuns: calls of _set_token so far; th[t].got:
\* the instances jquants() returned to thread t; overlapped: two calls of the
\* constructor were under way at once; halfBuilt: a call returned the instance
\* before it had isEnable; snap, snapAuth: the session and the token requests
\* when the first call returned
NoInstance ==
    [instance |-> 0, created |-> 0, lock |-> 0, initialized |-> FALSE, hasEnable |-> FALSE,
     setTokenRuns |-> 0, overlapped |-> FALSE, halfBuilt |-> FALSE, completed |-> 0,
     snap |-> BlankSession, snapAuth |-> 0, th |-> [t \in Threads |-> ThreadIdle]]

\* a faulty variant: __init__ never takes the early return
InitSkipsNever(initialized) == FALSE

\* __init__ 31-32: if hasattr(self, '_initialized'): return
InitSkips(initialized) == initialized

\* _set_token 52-78: the fields it assigns
SetTokenFields(sess, c, server, t, tok) ==
    IF ~c.email \/ ~c.password \/ server = "auth_user_fails" THEN sess
    ELSE IF server = "auth_refresh_fails" THEN [sess EXCEPT !.refresh_token = 1]
    ELSE [sess EXCEPT !.refresh_token = 1, !.id_token = tok,
                      !.token_expires_at = t + TokenTTLHours]

\* _set_token: its return value
SetTokenResult(c, server) == c.email /\ c.password /\ server = "ok"

\* the variables the constructor leaves alone
runVars == <<pc, creds, today, now, apiReqs, call, jq_list, jpx_list, jpxInvoked,
             announcement_list, added, events, asked, calls, results, rawReqs, rawResp,
             subscription, calendar_list, returned, file, crash, fresh, sheets>>

\* jquants() returns to thread t the instance __new__ gave it
Returns(c, t) ==
    [c EXCEPT !.th[t].pc = "idle", !.th[t].n = c.th[t].n + 1,
              !.th[t].got = Append(c.th[t].got, c.th[t].ref),
              !.completed = c.completed + 1,
              !.halfBuilt = c.halfBuilt \/ ~c.hasEnable]

\* a thread calls jquants()
Invoke(t) ==
    /\ ctor.th[t].pc = "idle"
    /\ ctor.th[t].n < MaxInvocations
    /\ ctor' = [ctor EXCEPT !.th[t].pc = "new_check",
                            !.overlapped = ctor.overlapped
                                \/ \E u \in Threads \ {t} : ctor.th[u].pc # "idle"]
    /\ UNCHANGED <<runVars, jq, minted, authReqs>>

\* __new__ 23: if cls._instance is None
NewCheck(t) ==
    /\ ctor.th[t].pc = "new_check"
    /\ ctor' = IF ctor.instance = 0
               THEN [ctor EXCEPT !.th[t].pc = "new_lock"]
               ELSE [ctor EXCEPT !.th[t].pc = "init_check", !.th[t].ref = ctor.instance]
    /\ UNCHANGED <<runVars, jq, minted, authReqs>>

\* __new__ 24-27: with cls._lock: the second test, the creation, the return
NewLocked(t) ==
    /\ ctor.th[t].pc = "new_lock"
    /\ ctor.lock = 0
    /\ ctor' = IF ctor.instance = 0
               THEN [ctor EXCEPT !.created = ctor.created + 1,
                                 !.instance = ctor.created + 1,
                                 !.initialized = FALSE, !.hasEnable = FALSE,
                                 !.th[t].ref = ctor.created + 1,
                                 !.th[t].pc = "init_check"]
               ELSE [ctor EXCEPT !.th[t].pc = "init_check", !.th[t].ref = ctor.instance]
    /\ UNCHANGED <<runVars, jq, minted, authReqs>>

\* __init__ 31-32: the early return of an initialised instance
InitCheck(t) ==
    /\ ctor.th[t].pc = "init_check"
    /\ ctor' = IF InitSkips(ctor.initialized)
               THEN Returns(ctor, t)
               ELSE [ctor EXCEPT !.th[t].pc = "init_fields"]
    /\ UNCHANGED <<runVars, jq, minted, authReqs>>

\* __init__ 34-39: the fields are blanked and _initialized is set
InitFields(t) ==
    /\ ctor.th[t].pc = "init_fields"
    /\ jq' = [BlankSession EXCEPT !.isEnable = jq.isEnable]
    /\ ctor' = [ctor EXCEPT !.initialized = TRUE, !.th[t].pc = "init_token"]
    /\ UNCHANGED <<runVars, minted, authReqs>>

\* __init__ 40: self._set_token()
InitToken(t) ==
    /\ ctor.th[t].pc = "init_token"
    /\ \E server \in AuthOutcomes :
           /\ jq' = SetTokenFields(jq, creds, server, now, minted + 1)
           /\ minted' = IF SetTokenResult(creds, server) THEN minted + 1 ELSE minted
           /\ authReqs' = authReqs + SetTokenPosts(creds, server)
           /\ ctor' = [ctor EXCEPT !.setTokenRuns = ctor.setTokenRuns + 1,
                                   !.th[t].res = SetTokenResult(creds, server),
                                   !.th[t].pc = "init_finish"]
    /\ UNCHANGED runVars

\* __init__ 40-42: isEnable is assigned, the headers are set, jquants() returns
InitFinish(t) ==
    /\ ctor.th[t].pc = "init_finish"
    /\ jq' = [jq EXCEPT !.isEnable = ctor.th[t].res,
                        !.headers = IF ctor.th[t].res THEN jq.id_token ELSE jq.headers]
    /\ LET c == Returns([ctor EXCEPT !.hasEnable = TRUE], t) IN
       ctor' = IF ctor.completed = 0
               THEN [c EXCEPT !.snap = jq', !.snapAuth = authReqs]
               ELSE c
    /\ UNCHANGED <<runVars, minted, authReqs>>

CtorInvoke == \E t \in Threads : Invoke(t)
CtorNewCheck == \E t \in Threads : NewCheck(t)
CtorNewLocked == \E t \in Threads : NewLocked(t)
CtorInitCheck == \E t \in Threads : InitCheck(t)
CtorInitFields == \E t \in Threads : InitFields(t)
CtorInitToken == \E t \in Threads : InitToken(t)
CtorInitFinish == \E t \in Threads : InitFinish(t)

(***************************************************************************)
(* The resource methods (lib/jquants.py): get_fins_announcement and         *)
(* get_market_trading_calendar share one shape, as do the other three.     *)
(***************************************************************************)
\* cursor: params.get("pagination_key"); sent: the cursor each request carried;
\* got: the pages received, in order
Idle == [method |-> "none", stage |-> "idle", args |-> <<>>, data |-> <<>>, pages |-> 0,
         cursor |-> NoCursor, sent |-> <<>>, got |-> <<>>, non200 |-> FALSE, exc |-> "none"]

\* the method's prologue: the freshness check, then the first request is due
StartCall(method, args, f) ==
    \E ok \in BOOLEAN :
        /\ jq' = Refreshed(jq, now, ok, minted + 1)
        /\ minted' = IF NeedsRefresh(jq, now) /\ ok THEN minted + 1 ELSE minted
        /\ authReqs' = authReqs + RefreshPosts(jq, now)
        /\ fresh' = [f EXCEPT !.checks = f.checks + 1, !.needed = NeedsRefresh(jq, now),
                              !.ok = NeedsRefresh(jq, now) /\ ok, !.at = now,
                              !.before = jq, !.posts = RefreshPosts(jq, now), !.reqs = 0]
        /\ call' = [Idle EXCEPT !.method = method, !.stage = "first", !.args = args]

Raise(c, what) == [c EXCEPT !.stage = "raised", !.exc = what]

\* requests.get(..., params=params, ...): the request goes out with params as
\* they are
Requested(c) == [c EXCEPT !.sent = Append(c.sent, c.cursor)]

\* a faulty variant: each page replaces the rows gathered so far
AccumulateLast(data, rows) == rows

\* 253 (294): data += d[<key>]
Accumulate(data, rows) == data \o rows

\* 250 (291): while "pagination_key" in d
LoopsOn(d) == d.next # NoCursor

\* 249-251 (290-292): d is a page; the rows are gathered and the loop goes on
\* with params["pagination_key"] = d["pagination_key"], or the method returns
Paged(c, d) ==
    [c EXCEPT !.data = Accumulate(c.data, d.rows), !.pages = c.pages + 1,
              !.got = Append(c.got, [rows |-> d.rows, next |-> d.next]),
              !.cursor = IF LoopsOn(d) THEN d.next ELSE c.cursor,
              !.stage = IF LoopsOn(d) THEN "page" ELSE "returned"]

\* the first request's response: lines 247-250 and 264-265 (288-291, 305-306)
FirstOutcome(c, r) ==
    IF r.kind = "exc" THEN Raise(c, "send")
    ELSE IF r.status = 200
    THEN (IF r.body.t = "nojson" THEN Raise(c, "decode")
          ELSE IF r.body.t = "err" THEN Raise(c, "key")
          ELSE Paged(c, r.body))
    ELSE (IF r.body.t = "nojson" THEN Raise([c EXCEPT !.non200 = TRUE], "decode")
          ELSE [c EXCEPT !.non200 = TRUE, !.stage = "returned", !.data = <<>>])

\* a follow-up request's response: lines 251-255 (292-296); the status is not read
PageOutcome(c, r) ==
    IF r.kind = "exc" THEN Raise(c, "send")
    ELSE LET c1 == [c EXCEPT !.non200 = c.non200 \/ r.status # 200] IN
         IF r.body.t = "nojson" THEN Raise(c1, "decode")
         ELSE IF r.body.t = "err" THEN Raise(c1, "key")
         ELSE Paged(c1, r.body)

\* the server's chain of pages is finite: the last page allowed carries no cursor
ChainEnds(c, r) ==
    (r.kind = "resp" /\ r.body.t = "page" /\ r.body.next # NoCursor) => c.pages + 1 < MaxPages

\* an exception nobody catches ends the run with a traceback
Outcome(c) ==
    /\ call' = c
    /\ IF c.stage = "raised"
       THEN pc' = "crashed" /\ crash' = c.exc
       ELSE UNCHANGED <<pc, crash>>

ClientFirst ==
    /\ pc \in {"ann_wait", "cal_wait"}
    /\ call.stage = "first"
    /\ \E r \in Responses(ClientBodies(call.method, Len(call.got) + 1)) :
           /\ ChainEnds(call, r)
           /\ Outcome(FirstOutcome(Requested(call), r))
    /\ apiReqs' = apiReqs + 1
    /\ fresh' = CountRequest(fresh, jq, now)
    /\ UNCHANGED <<sheets, ctor, creds, today, now, jq, minted, authReqs, jq_list, jpx_list, jpxInvoked,
                   announcement_list, added, events, asked, calls, results, rawReqs,
                   rawResp, subscription, calendar_list, returned, file>>

ClientPage ==
    /\ pc \in {"ann_wait", "cal_wait"}
    /\ call.stage = "page"
    /\ \E r \in Responses(ClientBodies(call.method, Len(call.got) + 1)) :
           /\ ChainEnds(call, r)
           /\ Outcome(PageOutcome(Requested(call), r))
    /\ apiReqs' = apiReqs + 1
    /\ fresh' = CountRequest(fresh, jq, now)
    /\ UNCHANGED <<sheets, ctor, creds, today, now, jq, minted, authReqs, jq_list, jpx_list, jpxInvoked,
                   announcement_list, added, events, asked, calls, results, rawReqs,
                   rawResp, subscription, calendar_list, returned, file>>

(***************************************************************************)
(* The run (generate.py).                                                  *)
(***************************************************************************)
\* get_date_range(days=365)
DefaultDays == 365

get_date_range(t, days) == <<Strftime(t), Strftime(AddDays(t, days))>>

NotWritten == [written |-> FALSE, events |-> {}]

Init ==
    /\ pc = "start"
    /\ creds \in [email : BOOLEAN, password : BOOLEAN]
    /\ today \in Todays
    /\ now = 0
    /\ jq = BlankSession
    /\ minted = 0
    /\ authReqs = 0
    /\ apiReqs = 0
    /\ call = Idle
    /\ jq_list = <<>>
    /\ jpx_list = <<>>
    /\ jpxInvoked = FALSE
    /\ announcement_list = <<>>
    /\ added = <<>>
    /\ events = {}
    /\ asked = <<>>
    /\ calls = <<>>
    /\ results = <<>>
    /\ rawReqs = 0
    /\ rawResp = Raised
    /\ subscription = <<>>
    /\ calendar_list = <<>>
    /\ returned = FALSE
    /\ file = NotWritten
    /\ crash = "none"
    /\ fresh = NoCheck
    /\ ctor = NoInstance
    /\ sheets = <<>>

\* __main__ 166: jq = jquants()
Construct ==
    /\ pc = "start"
    /\ \E server \in AuthOutcomes :
           /\ jq' = Constructed(creds, server, now, minted + 1)
           /\ minted' = IF jq'.isEnable THEN minted + 1 ELSE minted
           /\ authReqs' = authReqs + SetTokenPosts(creds, server)
    /\ pc' = "main_guard"
    /\ UNCHANGED <<sheets, ctor, fresh, creds, today, now, apiReqs, call, jq_list, jpx_list, jpxInvoked,
                   announcement_list, added, events, asked, calls, results, rawReqs,
                   rawResp, subscription, calendar_list, returned, file, crash>>

\* a faulty variant: the run goes on with a disabled session
MainProceedsAlways(sess) == TRUE

\* __main__ 167-171: generate_ics runs only with an enabled session
MainProceeds(sess) == sess.isEnable

MainGuard ==
    /\ pc = "main_guard"
    /\ pc' = IF MainProceeds(jq) THEN "ann_begin" ELSE "exited"
    /\ UNCHANGED <<sheets, ctor, fresh, creds, today, now, jq, minted, authReqs, apiReqs, call, jq_list,
                   jpx_list, jpxInvoked, announcement_list, added, events, asked, calls,
                   results, rawReqs, rawResp, subscription, calendar_list, returned, file,
                   crash>>

\* add_announcement_events 21: jq and jq.isEnable
FetchesPrimary(sess) == sess.isEnable

\* add_announcement_events 21: the primary fetch starts, or is skipped
AnnBegin ==
    /\ pc = "ann_begin"
    /\ IF FetchesPrimary(jq)
       THEN /\ StartCall("fins_announcement", <<>>, fresh)
            /\ pc' = "ann_wait"
       ELSE /\ pc' = "ann_skip"
            /\ UNCHANGED <<jq, minted, authReqs, call, fresh>>
    /\ UNCHANGED <<sheets, ctor, creds, today, now, apiReqs, jq_list, jpx_list, jpxInvoked,
                   announcement_list, added, events, asked, calls, results, rawReqs,
                   rawResp, subscription, calendar_list, returned, file, crash>>

\* a faulty variant: the frames are concatenated without the test of line 34
ConcatCalledAlways(jql, jpl) == TRUE

\* add_announcement_events 28-34: all_dataframes holds the non-empty frames, and
\* pd.concat is called only if it holds one
ConcatCalled(jql, jpl) == jql # <<>> \/ jpl # <<>>

\* add_announcement_events 27-68: the merge of the two sources and the events
AddAnnouncements(jql, jpl) ==
    /\ jq_list' = jql
    /\ jpx_list' = jpl
    /\ announcement_list' = MergedAnnouncements(jql, jpl)
    /\ added' = AnnouncementOutcomes(announcement_list')
    /\ events' = AddOutcomes(events, added')

\* add_announcement_events 21-68 once the primary rows are in: the fallback
\* fetch, the merge and the events
AnnFallbackMerge ==
    /\ \/ pc = "ann_wait" /\ call.stage = "returned"
       \/ pc = "ann_skip"
    /\ \E sc \in JpxScenarios :
           LET jql == IF pc = "ann_skip" THEN <<>> ELSE call.data
               jpl == JPXGetFinsAnnouncement(sc)
           IN IF ConcatCalled(jql, jpl) /\ jql = <<>> /\ jpl = <<>>
              THEN \* pd.concat of an empty list of frames raises ValueError
                   /\ jq_list' = jql
                   /\ jpx_list' = jpl
                   /\ pc' = "crashed"
                   /\ crash' = "concat"
                   /\ UNCHANGED <<announcement_list, added, events>>
              ELSE /\ AddAnnouncements(jql, jpl)
                   /\ pc' = "cal_begin"
                   /\ UNCHANGED crash
    /\ jpxInvoked' = TRUE
    /\ call' = Idle
    /\ UNCHANGED <<sheets, ctor, fresh, creds, today, now, jq, minted, authReqs, apiReqs, asked, calls, results,
                   rawReqs, rawResp, subscription, calendar_list, returned, file>>

\* generate_ics 152-153 and get_trading_calendar_with_retry 93: the first
\* structured call starts
CalBegin ==
    /\ pc = "cal_begin"
    /\ asked' = get_date_range(today, DefaultDays)
    /\ calls' = <<asked'>>
    /\ StartCall("trading_calendar", asked', fresh)
    /\ pc' = "cal_wait"
    /\ UNCHANGED <<sheets, ctor, creds, today, now, apiReqs, jq_list, jpx_list, jpxInvoked,
                   announcement_list, added, events, results, rawReqs, rawResp,
                   subscription, calendar_list, returned, file, crash>>

\* a faulty variant: the recovery is a loop, entered after every empty result
EnterRecoveryAgain(n, list) == list = <<>>

\* a faulty variant: the recovery is entered whatever the first call returned
EnterRecoveryAlways(n, list) == n = 1

\* get_trading_calendar_with_retry 96: the recovery path is entered after the
\* n-th structured call returned calendar_list
EnterRecovery(n, list) == n = 1 /\ list = <<>>

\* 102-103: error_data.get("message", "")
MessageOf(body) == IF body.t = "err" THEN body.message.text ELSE <<>>

\* a faulty variant: the retry is made whatever the extraction gave
ShouldRetryAlways(sub) == TRUE

\* 107: if subscription_from and subscription_to
ShouldRetry(sub) == sub[1] # None /\ sub[1] # <<>> /\ sub[2] # None /\ sub[2] # <<>>

\* a faulty variant: the retry repeats the caller's range
RetryArgsCaller(range, sub) == range

\* a faulty variant: the retry covers the caller's range and the reported one
RetryArgsUnion(range, sub) ==
    <<IF DateStrLE(range[1], sub[1]) THEN range[1] ELSE sub[1],
      IF DateStrLE(range[2], sub[2]) THEN sub[2] ELSE range[2]>>

\* 112: the range of the second structured call
RetryArgs(range, sub) == sub

\* get_trading_calendar_with_retry 116: return calendar_list
ReturnCalendar(list, f) ==
    /\ calendar_list' = list
    /\ fresh' = f
    /\ returned' = TRUE
    /\ call' = Idle
    /\ pc' = "holidays"
    /\ UNCHANGED <<jq, minted, authReqs, calls, crash>>

\* get_trading_calendar_with_retry 93-116, from the return of a structured call
CalContinue ==
    /\ pc = "cal_wait"
    /\ call.stage = "returned"
    /\ results' = Append(results, call.data)
    /\ IF ~EnterRecovery(Len(calls), call.data)
       THEN /\ ReturnCalendar(call.data, fresh)
            /\ UNCHANGED <<rawReqs, rawResp, subscription>>
       ELSE \E r \in Responses(RawBodies) :
                /\ rawReqs' = rawReqs + 1
                /\ rawResp' = r
                /\ IF r.kind = "exc"
                   THEN /\ pc' = "crashed" /\ crash' = "send"
                        /\ fresh' = CountRequest(fresh, jq, now)
                        /\ UNCHANGED <<subscription, calendar_list, returned, call, jq,
                                       minted, authReqs, calls>>
                   ELSE IF r.status = 200
                   THEN /\ ReturnCalendar(call.data, CountRequest(fresh, jq, now))
                        /\ UNCHANGED subscription
                   ELSE IF r.body.t = "nojson"
                   THEN /\ pc' = "crashed" /\ crash' = "decode"
                        /\ fresh' = CountRequest(fresh, jq, now)
                        /\ UNCHANGED <<subscription, calendar_list, returned, call, jq,
                                       minted, authReqs, calls>>
                   ELSE LET sub == extract_subscription_period(MessageOf(r.body)) IN
                        /\ subscription' = sub
                        /\ IF ShouldRetry(sub)
                           THEN /\ calls' = Append(calls, RetryArgs(asked, sub))
                                /\ StartCall("trading_calendar", RetryArgs(asked, sub),
                                             CountRequest(fresh, jq, now))
                                /\ UNCHANGED <<pc, crash, calendar_list, returned>>
                           ELSE ReturnCalendar(call.data, CountRequest(fresh, jq, now))
    /\ UNCHANGED <<sheets, ctor, creds, today, now, apiReqs, jq_list, jpx_list, jpxInvoked,
                   announcement_list, added, events, asked, file>>

\* generate_ics 156-159: add_holiday_events and save_calendar_to_file
HolidaysAndSave ==
    /\ pc = "holidays"
    /\ events' = AddOutcomes(events, HolidayOutcomes(calendar_list))
    /\ file' = [written |-> TRUE, events |-> events']
    /\ pc' = "done"
    /\ UNCHANGED <<sheets, ctor, fresh, creds, today, now, jq, minted, authReqs, apiReqs, call, jq_list,
                   jpx_list, jpxInvoked, announcement_list, added, asked, calls, results,
                   rawReqs, rawResp, subscription, calendar_list, returned, crash>>

Ended == pc \in {"done", "exited", "crashed"}

\* the points of the run at which a resource method is about to be entered
BeforeResourceMethod ==
    \/ pc \in {"ann_begin", "cal_begin"}
    \/ pc = "cal_wait" /\ call.stage = "returned"

\* time passes while the run is under way; the clock is read only by
\* _refresh_token_if_needed in the prologue of a resource method, so the time
\* that passed since the last reading is added there
Tick ==
    /\ BeforeResourceMethod
    /\ now + TickHours <= MaxTicks * TickHours
    /\ now' = now + TickHours
    /\ UNCHANGED <<sheets, ctor, fresh, pc, creds, today, jq, minted, authReqs, apiReqs, call, jq_list,
                   jpx_list, jpxInvoked, announcement_list, added, events, asked, calls,
                   results, rawReqs, rawResp, subscription, calendar_list, returned, file,
                   crash>>

Next ==
    \/ Construct
    \/ MainGuard
    \/ AnnBegin
    \/ ClientFirst
    \/ ClientPage
    \/ AnnFallbackMerge
    \/ CalBegin
    \/ CalContinue
    \/ HolidaysAndSave
    \/ Tick

Spec == Init /\ [][Next]_vars

(***************************************************************************)
(* The merge alone: add_announcement_events over every pair of bounded     *)
(* inputs. The fallback list is one JPX.get_fins_announcement can return:  *)
(* it holds no (Code, Date) twice.                                         *)
(***************************************************************************)
InitMerge ==
    /\ pc = "merge"
    /\ jq_list \in BoundedSeqs(PrimaryRows, MaxPrimary)
    /\ jpx_list \in {l \in BoundedSeqs(FallbackRows, MaxFallback) : DropDuplicates(l) = l}
    /\ creds = [email |-> TRUE, password |-> TRUE]
    /\ today = [y |-> 2024, m |-> 5, d |-> 20]
    /\ now = 0
    /\ jq = Constructed(creds, "ok", now, 1)
    /\ minted = 1
    /\ authReqs = 2
    /\ apiReqs = 0
    /\ call = Idle
    /\ jpxInvoked = TRUE
    /\ announcement_list = <<>>
    /\ added = <<>>
    /\ events = {}
    /\ asked = <<>>
    /\ calls = <<>>
    /\ results = <<>>
    /\ rawReqs = 0
    /\ rawResp = Raised
    /\ subscription = <<>>
    /\ calendar_list = <<>>
    /\ returned = FALSE
    /\ file = NotWritten
    /\ crash = "none"
    /\ fresh = NoCheck
    /\ ctor = NoInstance
    /\ sheets = <<>>

MergeApply ==
    /\ pc = "merge"
    /\ AddAnnouncements(jq_list, jpx_list)
    /\ pc' = "merged"
    /\ UNCHANGED <<sheets, ctor, fresh, creds, today, now, jq, minted, authReqs, apiReqs, call, jpxInvoked,
                   asked, calls, results, rawReqs, rawResp, subscription, calendar_list,
                   returned, file, crash>>

NextMerge == MergeApply

SpecMerge == InitMerge /\ [][NextMerge]_vars

(***************************************************************************)
(* The constructor alone: threads call jquants() in one process.           *)
(***************************************************************************)
InitSingleton ==
    /\ pc = "ctor"
    /\ creds \in [email : BOOLEAN, password : BOOLEAN]
    /\ today = [y |-> 2024, m |-> 5, d |-> 20]
    /\ now = 0
    /\ jq = BlankSession
    /\ minted = 0
    /\ authReqs = 0
    /\ apiReqs = 0
    /\ call = Idle
    /\ jq_list = <<>>
    /\ jpx_list = <<>>
    /\ jpxInvoked = FALSE
    /\ announcement_list = <<>>
    /\ added = <<>>
    /\ events = {}
    /\ asked = <<>>
    /\ calls = <<>>
    /\ results = <<>>
    /\ rawReqs = 0
    /\ rawResp = Raised
    /\ subscription = <<>>
    /\ calendar_list = <<>>
    /\ returned = FALSE
    /\ file = NotWritten
    /\ crash = "none"
    /\ fresh = NoCheck
    /\ ctor = NoInstance
    /\ sheets = <<>>

NextSingleton ==
    \/ CtorInvoke
    \/ CtorNewCheck
    \/ CtorNewLocked
    \/ CtorInitCheck
    \/ CtorInitFields
    \/ CtorInitToken
    \/ CtorInitFinish

SpecSingleton == InitSingleton /\ [][NextSingleton]_vars

(***************************************************************************)
(* add_holiday_events alone, over every bounded calendar list, on an empty *)
(* Calendar. added holds the outcome of each row.                          *)
(***************************************************************************)
InitHoliday ==
    /\ pc = "holiday"
    /\ calendar_list \in BoundedSeqs(CalendarRows, MaxCalendar)
    /\ creds = [email |-> TRUE, password |-> TRUE]
    /\ today = [y |-> 2024, m |-> 5, d |-> 20]
    /\ now = 0
    /\ jq = Constructed(creds, "ok", now, 1)
    /\ minted = 1
    /\ authReqs = 2
    /\ apiReqs = 0
    /\ call = Idle
    /\ jq_list = <<>>
    /\ jpx_list = <<>>
    /\ jpxInvoked = FALSE
    /\ announcement_list = <<>>
    /\ added = <<>>
    /\ events = {}
    /\ asked = <<>>
    /\ calls = <<>>
    /\ results = <<>>
    /\ rawReqs = 0
    /\ rawResp = Raised
    /\ subscription = <<>>
    /\ returned = TRUE
    /\ file = NotWritten
    /\ crash = "none"
    /\ fresh = NoCheck
    /\ ctor = NoInstance
    /\ sheets = <<>>

HolidayApply ==
    /\ pc = "holiday"
    /\ added' = HolidayOutcomes(calendar_list)
    /\ events' = AddOutcomes(events, added')
    /\ pc' = "held"
    /\ UNCHANGED <<sheets, ctor, fresh, creds, today, now, jq, minted, authReqs, apiReqs, call,
                   jq_list, jpx_list, jpxInvoked, announcement_list, asked, calls, results,
                   rawReqs, rawResp, subscription, calendar_list, returned, file, crash>>

NextHoliday == HolidayApply

SpecHoliday == InitHoliday /\ [][NextHoliday]_vars

(***************************************************************************)
(* The fallback alone: JPX.get_fins_announcement over the spreadsheets the  *)
(* listing page links to, some of which fail.                              *)
(***************************************************************************)
FallbackSheets == {SheetFails, SheetBroken, SheetEmpty, SheetA, SheetB, SheetC}

InitFallback ==
    /\ pc = "jpx_scrape"
    /\ sheets \in BoundedSeqs(FallbackSheets, MaxSheets)
    /\ creds = [email |-> TRUE, password |-> TRUE]
    /\ today = [y |-> 2024, m |-> 5, d |-> 20]
    /\ now = 0
    /\ jq = Constructed(creds, "ok", now, 1)
    /\ minted = 1
    /\ authReqs = 2
    /\ apiReqs = 0
    /\ call = Idle
    /\ jq_list = <<>>
    /\ jpx_list = <<>>
    /\ jpxInvoked = FALSE
    /\ announcement_list = <<>>
    /\ added = <<>>
    /\ events = {}
    /\ asked = <<>>
    /\ calls = <<>>
    /\ results = <<>>
    /\ rawReqs = 0
    /\ rawResp = Raised
    /\ subscription = <<>>
    /\ calendar_list = <<>>
    /\ returned = FALSE
    /\ file = NotWritten
    /\ crash = "none"
    /\ fresh = NoCheck
    /\ ctor = NoInstance

\* jpx.py 28-64: excel_urls, or [] when the request for the page raised
FallbackScrape ==
    /\ pc = "jpx_scrape"
    /\ \E reachable \in BOOLEAN : sheets' = (IF reachable THEN sheets ELSE <<>>)
    /\ pc' = "jpx_urls"
    /\ UNCHANGED <<ctor, fresh, creds, today, now, jq, minted, authReqs, apiReqs, call, jq_list,
                   jpx_list, jpxInvoked, announcement_list, added, events, asked, calls,
                   results, rawReqs, rawResp, subscription, calendar_list, returned, file,
                   crash>>

\* jpx.py 211-240: the loop over excel_urls, the concatenation and the result
FallbackFetch ==
    /\ pc = "jpx_urls"
    /\ jpx_list' = JPXGetFinsAnnouncement([page |-> TRUE, sheets |-> sheets])
    /\ jpxInvoked' = TRUE
    /\ pc' = "jpx_done"
    /\ UNCHANGED <<sheets, ctor, fresh, creds, today, now, jq, minted, authReqs, apiReqs, call,
                   jq_list, announcement_list, added, events, asked, calls, results,
                   rawReqs, rawResp, subscription, calendar_list, returned, file, crash>>

NextFallback ==
    \/ FallbackScrape
    \/ FallbackFetch

SpecFallback == InitFallback /\ [][NextFallback]_vars

(***************************************************************************)
(* extract_subscription_period alone, over messages put together from a    *)
(* lead, a first date, a separator, a second date and a rest.              *)
(***************************************************************************)
Blanks(n) == [i \in 1..n |-> " "]

Leads == {<<>>, Chars_dates, <<"1">>}

\* a date, a string one digit short of the shape, and a string of the shape
\* that names no day
FirstDates ==
    {Sub2023,
     <<"2", "0", "2", "3", "-", "9", "-", "1", "0">>,
     <<"2", "0", "2", "3", "-", "1", "3", "-", "4", "5">>}

SecondDates == {Sub2025, <<"2", "0", "2", "5", "-", "0", "9", "-", "1">>}

Separators ==
    {Blanks(a) \o <<"~">> \o Blanks(b) : a, b \in 0..MaxSpaces}
        \cup {<<"\t", "~", "\n">>, <<"-">>, <<" ">>}

Rests ==
    {<<>>, <<".">>, <<"~">> \o Sub2024b, <<" ">> \o Sub2024a \o <<"~">> \o Sub2024b}

ExtractionMessages ==
    {l \o f \o sep \o d \o r :
        l \in Leads, f \in FirstDates, sep \in Separators, d \in SecondDates, r \in Rests}
        \cup {MsgOther.text, <<>>}

InitExtract ==
    /\ pc = "extract"
    /\ \E t \in ExtractionMessages :
           rawResp = [kind |-> "resp", status |-> 400,
                      body |-> ErrBody([text |-> t, range |-> <<>>])]
    /\ creds = [email |-> TRUE, password |-> TRUE]
    /\ today = [y |-> 2024, m |-> 5, d |-> 20]
    /\ now = 0
    /\ jq = Constructed(creds, "ok", now, 1)
    /\ minted = 1
    /\ authReqs = 2
    /\ apiReqs = 0
    /\ call = Idle
    /\ jq_list = <<>>
    /\ jpx_list = <<>>
    /\ jpxInvoked = FALSE
    /\ announcement_list = <<>>
    /\ added = <<>>
    /\ events = {}
    /\ asked = <<>>
    /\ calls = <<>>
    /\ results = <<>>
    /\ rawReqs = 1
    /\ subscription = <<>>
    /\ calendar_list = <<>>
    /\ returned = FALSE
    /\ file = NotWritten
    /\ crash = "none"
    /\ fresh = NoCheck
    /\ ctor = NoInstance
    /\ sheets = <<>>

\* generate.py 103-105: error_message of the body, extract_subscription_period
ExtractApply ==
    /\ pc = "extract"
    /\ subscription' = extract_subscription_period(MessageOf(rawResp.body))
    /\ pc' = "extracted"
    /\ UNCHANGED <<sheets, ctor, fresh, creds, today, now, jq, minted, authReqs, apiReqs, call,
                   jq_list, jpx_list, jpxInvoked, announcement_list, added, events, asked,
                   calls, results, rawReqs, rawResp, calendar_list, returned, file, crash>>

NextExtract == ExtractApply

SpecExtract == InitExtract /\ [][NextExtract]_vars

(***************************************************************************)
(* The session on its own (lib/jquants.py): one construction, then any     *)
(* resource methods at any times, whether the session is enabled or not.   *)
(***************************************************************************)
InitSession ==
    /\ pc = "session"
    /\ creds \in [email : BOOLEAN, password : BOOLEAN]
    /\ today \in Todays
    /\ now = 0
    /\ jq = BlankSession
    /\ minted = 0
    /\ authReqs = 0
    /\ apiReqs = 0
    /\ call = Idle
    /\ jq_list = <<>>
    /\ jpx_list = <<>>
    /\ jpxInvoked = FALSE
    /\ announcement_list = <<>>
    /\ added = <<>>
    /\ events = {}
    /\ asked = <<>>
    /\ calls = <<>>
    /\ results = <<>>
    /\ rawReqs = 0
    /\ rawResp = Raised
    /\ subscription = <<>>
    /\ calendar_list = <<>>
    /\ returned = FALSE
    /\ file = NotWritten
    /\ crash = "none"
    /\ fresh = NoCheck
    /\ ctor = NoInstance
    /\ sheets = <<>>

\* jquants.__init__ 29-42: _set_token, isEnable, the Authorization header
SessionConstruct ==
    /\ pc = "session"
    /\ \E server \in AuthOutcomes :
           /\ jq' = Constructed(creds, server, now, minted + 1)
           /\ minted' = IF jq'.isEnable THEN minted + 1 ELSE minted
           /\ authReqs' = authReqs + SetTokenPosts(creds, server)
    /\ pc' = "session_live"
    /\ UNCHANGED <<sheets, ctor, fresh, creds, today, now, apiReqs, call, jq_list, jpx_list,
                   jpxInvoked, announcement_list, added, events, asked, calls, results,
                   rawReqs, rawResp, subscription, calendar_list, returned, file, crash>>

\* a resource method (get_fins_announcement 102-109, get_markets_trading_calendar
\* 111-118): _refresh_token_if_needed, then cli.get(..., headers=self.headers)
SessionCall ==
    /\ pc = "session_live"
    /\ fresh.checks < MaxChecks
    /\ \E ok \in BOOLEAN :
           /\ jq' = Refreshed(jq, now, ok, minted + 1)
           /\ minted' = IF NeedsRefresh(jq, now) /\ ok THEN minted + 1 ELSE minted
           /\ authReqs' = authReqs + RefreshPosts(jq, now)
           /\ fresh' = CountRequest([fresh EXCEPT !.checks = fresh.checks + 1,
                                                  !.needed = NeedsRefresh(jq, now),
                                                  !.ok = NeedsRefresh(jq, now) /\ ok,
                                                  !.at = now, !.before = jq,
                                                  !.posts = RefreshPosts(jq, now),
                                                  !.reqs = 0],
                                    jq', now)
    /\ apiReqs' = apiReqs + 1
    /\ UNCHANGED <<sheets, ctor, pc, creds, today, now, call, jq_list, jpx_list, jpxInvoked,
                   announcement_list, added, events, asked, calls, results, rawReqs,
                   rawResp, subscription, calendar_list, returned, file, crash>>

\* time passes between the calls (datetime.now())
SessionTick ==
    /\ now + TickHours <= MaxSessionTicks * TickHours
    /\ now' = now + TickHours
    /\ UNCHANGED <<sheets, ctor, fresh, pc, creds, today, jq, minted, authReqs, apiReqs, call,
                   jq_list, jpx_list, jpxInvoked, announcement_list, added, events, asked,
                   calls, results, rawReqs, rawResp, subscription, calendar_list, returned,
                   file, crash>>

NextSession ==
    \/ SessionConstruct
    \/ SessionCall
    \/ SessionTick

SpecSession == InitSession /\ [][NextSession]_vars

(***************************************************************************)
(* One batch through both event builders: the primary rows, the            *)
(* spreadsheets of the fallback in the order list(set(...)) gave them, and *)
(* the calendar list; add_announcement_events and then add_holiday_events  *)
(* fill one Calendar. added holds the outcome of every row, announcements  *)
(* first.                                                                  *)
(***************************************************************************)
\* the spreadsheets behind the links of the listing page, each of them readable
BatchSheets == {SheetA, SheetB, SheetC}

\* the primary rows of one code, and a row of the other code that is dated by
\* its AnnouncementDate
BatchPrimaryRows ==
    {r \in PrimaryRows : r.Code = Code1} \cup {PrimaryRow(Code2, <<>>, DateB, <<>>)}

BatchCalendars ==
    {<<>>,
     <<Holiday1, Holiday1>>,
     <<Holiday1, BadHoliday, Holiday2>>,
     <<BadHoliday, Trading1, Holiday1>>}

InitBatch ==
    /\ pc = "batch"
    /\ jq_list \in BoundedSeqs(BatchPrimaryRows, MaxPrimary)
    /\ sheets \in BoundedSeqs(BatchSheets, MaxSheets)
    /\ calendar_list \in BatchCalendars
    /\ creds = [email |-> TRUE, password |-> TRUE]
    /\ today = [y |-> 2024, m |-> 5, d |-> 20]
    /\ now = 0
    /\ jq = Constructed(creds, "ok", now, 1)
    /\ minted = 1
    /\ authReqs = 2
    /\ apiReqs = 0
    /\ call = Idle
    /\ jpx_list = <<>>
    /\ jpxInvoked = FALSE
    /\ announcement_list = <<>>
    /\ added = <<>>
    /\ events = {}
    /\ asked = <<>>
    /\ calls = <<>>
    /\ results = <<>>
    /\ rawReqs = 0
    /\ rawResp = Raised
    /\ subscription = <<>>
    /\ returned = TRUE
    /\ file = NotWritten
    /\ crash = "none"
    /\ fresh = NoCheck
    /\ ctor = NoInstance

\* add_announcement_events 24-25: JPX().get_fins_announcement() over the sheets
BatchFallback ==
    /\ pc = "batch"
    /\ jpx_list' = JPXGetFinsAnnouncement([page |-> TRUE, sheets |-> sheets])
    /\ jpxInvoked' = TRUE
    /\ pc' = "merge"
    /\ UNCHANGED <<sheets, ctor, fresh, creds, today, now, jq, minted, authReqs, apiReqs, call,
                   jq_list, announcement_list, added, events, asked, calls, results,
                   rawReqs, rawResp, subscription, calendar_list, returned, file, crash>>

\* generate_ics 156: add_holiday_events on the Calendar the announcements are in
BatchHolidays ==
    /\ pc = "merged"
    /\ added' = added \o HolidayOutcomes(calendar_list)
    /\ events' = AddOutcomes(events, HolidayOutcomes(calendar_list))
    /\ pc' = "batched"
    /\ UNCHANGED <<sheets, ctor, fresh, creds, today, now, jq, minted, authReqs, apiReqs, call,
                   jq_list, jpx_list, jpxInvoked, announcement_list, asked, calls, results,
                   rawReqs, rawResp, subscription, calendar_list, returned, file, crash>>

NextBatch ==
    \/ BatchFallback
    \/ MergeApply
    \/ BatchHolidays

SpecBatch == InitBatch /\ [][NextBatch]_vars

(***************************************************************************)
(* Claims about the merge (checked under SpecMerge).                       *)
(***************************************************************************)
KeysOf(rows) == {DedupKey(rows[i]) : i \in 1..Len(rows)}

InputKeys == KeysOf(jq_list) \cup KeysOf(jpx_list)

FirstWith(rows, k) ==
    rows[CHOOSE i \in 1..Len(rows) :
             /\ DedupKey(rows[i]) = k
             /\ \A j \in 1..(i - 1) : DedupKey(rows[j]) # k]

\* the row that stands for key k: the first primary row if there is one
WinnerOf(k) == IF k \in KeysOf(jq_list) THEN FirstWith(jq_list, k) ELSE FirstWith(jpx_list, k)

PositionsOf(k) == {i \in 1..Len(announcement_list) : DedupKey(announcement_list[i]) = k}

ParsesAsDate(s) == Strptime(s) # ParseFail

RangeWithin(inner, outer) == DateStrLE(outer[1], inner[1]) /\ DateStrLE(inner[2], outer[2])

\* the range the server's error message reported, <<>> if it reported none
ReportedRange == IF rawResp.kind = "resp" /\ rawResp.body.t = "err"
                 THEN rawResp.body.message.range ELSE <<>>

RangeExtracted == subscription # <<>> /\ subscription # <<None, None>>

\* C2: when the first structured call returned no rows and a range was
\* extracted from the raw error body, the structured fetch is invoked exactly
\* twice, the second time with exactly the extracted (from, to), not the
\* caller's, and what the function returns is the second call's result.
C2_RetryUsesExtractedRange ==
    (Len(results) >= 1 /\ results[1] = <<>> /\ RangeExtracted) =>
        /\ Len(calls) = 2
        /\ calls[1] = asked
        /\ calls[2] = subscription
        /\ subscription = ReportedRange
        /\ returned => (Len(results) = 2 /\ calendar_list = results[2])

\* C2 witness: the retry returned rows for a range that is not the caller's
C2_Witness ==
    /\ returned
    /\ Len(calls) = 2
    /\ calls[2] # asked
    /\ Len(results) = 2
    /\ results[2] # <<>>
    /\ calendar_list = results[2]

\* C3: one invocation never retries more than once: at most two structured
\* calls and one raw re-issue, and an empty result of the retry is returned
\* as it is, with no further attempt.
C3_AtMostOneRetry ==
    /\ Len(calls) <= 2
    /\ Len(results) <= 2
    /\ rawReqs <= 1
    /\ (Len(results) = 2 /\ results[2] = <<>>) =>
           (returned /\ calendar_list = <<>> /\ call = Idle /\ pc \in {"holidays", "done"})

\* C3 witness: the retry itself came back empty and the run went on
C3_Witness ==
    /\ Len(results) = 2
    /\ results[2] = <<>>
    /\ rawReqs = 1
    /\ pc = "done"

C5_NoRangeNoRetry ==
    (Len(results) >= 1 /\ results[1] = <<>> /\ rawReqs = 1 /\ rawResp.kind = "resp"
        /\ rawResp.status # 200 /\ rawResp.body.t # "nojson" /\ ReportedRange = <<>>) =>
        /\ subscription = <<None, None>>
        /\ Len(calls) = 1
        /\ Len(results) = 1
        /\ returned
        /\ calendar_list = results[1]

\* C5 witness: an error message without a range was read and the run ended
\* with one structured call
C5_Witness ==
    /\ pc = "done"
    /\ rawReqs = 1
    /\ rawResp.kind = "resp"
    /\ rawResp.body.t = "err"
    /\ subscription = <<None, None>>
    /\ Len(calls) = 1

CredentialAbsent == ~creds.email \/ ~creds.password

\* C6: with a credential absent the session is disabled and no authentication
\* request is sent; and while the session is disabled no request goes to the
\* primary API: no resource method is started, no structured calendar call,
\* no raw re-issue.
C6_DisabledSendsNothing ==
    pc # "start" =>
        /\ CredentialAbsent => (~jq.isEnable /\ authReqs = 0)
        /\ ~jq.isEnable =>
               (apiReqs = 0 /\ rawReqs = 0 /\ calls = <<>> /\ call = Idle /\ jq.headers = 0)

\* C6 witness: a run with a credential absent has ended
C6_Witness ==
    /\ CredentialAbsent
    /\ Ended
    /\ ~jq.isEnable
    /\ authReqs + apiReqs + rawReqs = 0

\* C7 as stated: with the credentials absent the fallback is still fetched and
\* every fallback row with a valid date has its event in the written calendar
C7_AsStated ==
    (Ended /\ CredentialAbsent) =>
        /\ jpxInvoked
        /\ file.written
        /\ \A i \in 1..Len(jpx_list) :
               ParsesAsDate(jpx_list[i].Date) =>
                   \E e \in file.events :
                       e.uid = jpx_list[i].Code \o AnnouncementInfix \o jpx_list[i].Date

\* C8 as stated: every run ends with the calendar file written
C8_AsStated == Ended => file.written

\* C9 as stated: no failure to send a request or to decode a response body
\* reaches the top level
C9_AsStated == crash \notin {"send", "decode"}

\* C10 as stated: a resource method that got a non-200 response, to its first
\* request or to a follow-up page request, returns the empty result
C10_AsStated ==
    (call.non200 /\ call.stage \in {"returned", "raised"}) =>
        (call.stage = "returned" /\ call.data = <<>>)

\* the pages a returned call received
PageRows(c) == [i \in 1..Len(c.got) |-> c.got[i].rows]

\* C11: a resource method that was served a chain of k pages has issued exactly
\* k requests, the first without a pagination_key and each later one with the
\* pagination_key of the response just before it; only the last page is without
\* a pagination_key; and the method returns the rows of the k pages
\* concatenated in page order.
C11_PaginationFollowsChain ==
    (call.stage = "returned" /\ call.got # <<>>) =>
        LET k == Len(call.got) IN
        /\ Len(call.sent) = k
        /\ call.sent[1] = NoCursor
        /\ \A i \in 1..(k - 1) :
               /\ call.got[i].next # NoCursor
               /\ call.sent[i + 1] = call.got[i].next
        /\ call.got[k].next = NoCursor
        /\ call.data = Flatten(PageRows(call))

\* C11 witness: a call returned the rows of two non-empty pages
C11_Witness ==
    /\ call.stage = "returned"
    /\ Len(call.got) = 2
    /\ call.got[1].rows # <<>>
    /\ call.got[2].rows # <<>>
    /\ call.sent = <<NoCursor, call.got[1].next>>
    /\ Len(call.data) = Len(call.got[1].rows) + Len(call.got[2].rows)

(***************************************************************************)
(* Claims about the constructor (checked under SpecSingleton).             *)
(***************************************************************************)
AllGotTheInstance ==
    \A t \in Threads : \A i \in 1..Len(ctor.th[t].got) : ctor.th[t].got[i] = ctor.instance

\* C12: when the calls of jquants() follow one another (no two are under way at
\* once), every call returns the same instance, one instance is created,
\* _set_token runs at most once, and a call after the first leaves the tokens,
\* the expiry, the headers and isEnable as the first call left them and sends
\* no token request.
C12_SequentialSingleton ==
    ~ctor.overlapped =>
        /\ ctor.created <= 1
        /\ ctor.setTokenRuns <= 1
        /\ AllGotTheInstance
        /\ ~ctor.halfBuilt
        /\ ctor.completed >= 1 => (jq = ctor.snap /\ authReqs = ctor.snapAuth)

\* C12 witness: three calls, one after another, by two threads, on an enabled
\* session
C12_Witness ==
    /\ ~ctor.overlapped
    /\ ctor.completed >= 3
    /\ \A t \in Threads : ctor.th[t].got # <<>>
    /\ ctor.setTokenRuns = 1
    /\ jq.isEnable

\* C13 as stated: under every interleaving of concurrent calls of jquants() the
\* session is initialised once (_set_token runs at most once) and every thread
\* gets the same instance
C13_AsStated ==
    /\ ctor.setTokenRuns <= 1
    /\ ctor.created <= 1
    /\ AllGotTheInstance

(***************************************************************************)
(* Claims about the freshness check (checked under Spec).                  *)
(***************************************************************************)
\* C14: a _refresh_token_if_needed that finds the stored expiry passed posts
\* exactly one refresh-token exchange; when the exchange succeeds the stored
\* id_token is the newly minted one, the Authorization header carries it and
\* the expiry is 24 hours after the time of the check, so that a check made
\* right after it posts nothing. A check that finds the token in date posts
\* nothing and changes nothing.
C14_RefreshRenews ==
    /\ fresh.posts = (IF fresh.needed THEN 1 ELSE 0)
    /\ (fresh.checks > 0 /\ ~fresh.needed) => jq = fresh.before
    /\ (fresh.needed /\ fresh.ok) =>
           /\ jq.id_token = minted
           /\ jq.id_token # fresh.before.id_token
           /\ jq.headers = jq.id_token
           /\ jq.refresh_token = fresh.before.refresh_token
           /\ jq.token_expires_at = fresh.at + TokenTTLHours
           /\ RefreshPosts(jq, fresh.at) = 0

\* C14 witness: an expired token was renewed and the request went out with it
C14_Witness ==
    /\ fresh.needed
    /\ fresh.ok
    /\ fresh.at >= fresh.before.token_expires_at
    /\ fresh.reqs >= 1
    /\ jq.headers = minted
    /\ minted = 2

\* C15: a failed refresh leaves the stored tokens, the expiry and the
\* Authorization header exactly as they were, raises nothing, and the resource
\* method that made the check goes on to its request.
C15_FailedRefreshKeeps ==
    (fresh.needed /\ ~fresh.ok) =>
        /\ jq = fresh.before
        /\ NeedsRefresh(jq, fresh.at)
        /\ fresh.reqs = 0 =>
               (call.stage = "first" /\ pc \in {"ann_wait", "cal_wait"} /\ crash = "none")

\* C15 witness: after a failed refresh the request was sent with the expired token
C15_Witness ==
    /\ fresh.needed
    /\ ~fresh.ok
    /\ fresh.reqs >= 1
    /\ call.sent # <<>>
    /\ jq.headers = fresh.before.headers
    /\ now >= jq.token_expires_at

\* C16 as stated: every request to the primary API (first page, follow-up page,
\* raw re-issue) is immediately preceded by a freshness check
C16_AsStated == fresh.unchecked = 0

(***************************************************************************)
(* Claims about add_holiday_events (checked under SpecHoliday).            *)
(***************************************************************************)
\* the condition of the claim on a row: HolidayDivision is the number 0, or
\* IsTradingDay is False
MarkedHoliday(item) ==
    item.HolidayDivision = PyInt(0) \/ item.IsTradingDay = PyBool(FALSE)

\* C17: for every row of the calendar list whose Date is a valid YYYY-MM-DD
\* string, add_holiday_events hands an event for the row to the calendar, and
\* the calendar holds an event with uid holiday-<Date>, if and only if the
\* row's HolidayDivision is 0 or its IsTradingDay is False.
C17_HolidayIff ==
    pc = "held" =>
        \A i \in 1..Len(calendar_list) :
            LET item == calendar_list[i] IN
            ParsesAsDate(item.Date) =>
                /\ (added[i] # Skipped) <=> MarkedHoliday(item)
                /\ MarkedHoliday(item) =>
                       /\ added[i] = build_event(HolidayTitle, Strptime(item.Date),
                                                 HolidayPrefix \o item.Date)
                       /\ \E e \in events : e.uid = HolidayPrefix \o item.Date

\* C17 witness: (HolidayDivision 0, IsTradingDay True) gave an event and
\* (HolidayDivision 1, IsTradingDay True) gave none
C17_Witness ==
    /\ pc = "held"
    /\ Len(calendar_list) = 2
    /\ calendar_list[1].HolidayDivision = PyInt(0)
    /\ calendar_list[1].IsTradingDay = PyBool(TRUE)
    /\ calendar_list[2].HolidayDivision = PyInt(1)
    /\ calendar_list[2].IsTradingDay = PyBool(TRUE)
    /\ ParsesAsDate(calendar_list[1].Date)
    /\ ParsesAsDate(calendar_list[2].Date)
    /\ added[1] # Skipped
    /\ added[2] = Skipped
    /\ Cardinality(events) = 1

(***************************************************************************)
(* Claims about the uids and the unparseable dates (checked under          *)
(* SpecBatch).                                                             *)
(***************************************************************************)
\* the rows that gave an event to c.events.add
Built == {i \in 1..Len(added) : added[i] # Skipped}

Orders(s) == {p \in [1..Len(s) -> 1..Len(s)] : \A i, j \in 1..Len(s) : p[i] = p[j] => i = j}

Reordered(s, p) == [i \in 1..Len(s) |-> s[p[i]]]

UidsOf(evs) == {e.uid : e \in evs}

\* c.events after both builders ran on the given inputs
OutputOf(jql, jpl, cal) ==
    AddOutcomes(AddOutcomes({}, AnnouncementOutcomes(MergedAnnouncements(jql, jpl))),
                HolidayOutcomes(cal))

\* the uids of a run that processes the spreadsheets in order p
UidsInOrder(p) ==
    UidsOf(OutputOf(jq_list,
                    JPXGetFinsAnnouncement([page |-> TRUE, sheets |-> Reordered(sheets, p)]),
                    calendar_list))

\* every row either source handed in, before any deduplication
AllInputRows == ConcatOrder(jq_list, Flatten(ParsedFrames(sheets)))

\* the positions of added that belong to announcement rows
AnnouncementsBuilt == {i \in Built : i <= Len(announcement_list)}

\* every holiday event's uid is holiday-Date of its row
HolidayUidsFromDate ==
    \A k \in 1..Len(calendar_list) :
        LET o == added[Len(announcement_list) + k] IN
        o # Skipped => o.uid = HolidayPrefix \o calendar_list[k].Date

RemoveAt(s, i) == SubSeq(s, 1, i - 1) \o SubSeq(s, i + 1, Len(s))

\* a date string that reaches strptime and does not parse as YYYY-MM-DD
Unparseable(s) == s # <<>> /\ s # NoVal /\ Strptime(s) = ParseFail

BadAnnouncementRows(list) ==
    {i \in 1..Len(list) : Unparseable(AnnouncementDateStr(list[i]))}

BadHolidayRows(list) == {k \in 1..Len(list) : Unparseable(list[k].Date)}

GaveEvent(o) == o # Skipped

\* the events given to c.events.add, in order
EventsGiven(outs) == SelectSeq(outs, GaveEvent)

\* the outcomes of the announcement rows and of the calendar rows
AnnouncementPart == SubSeq(added, 1, Len(announcement_list))
HolidayPart == SubSeq(added, Len(announcement_list) + 1, Len(added))

\* C20: a record whose date does not parse gives no event, in
\* add_announcement_events and in add_holiday_events alike, and the batch
\* goes on: the events given to the calendar, in order, and the calendar
\* itself are those of the same batch without that record.
C20_BadDatesSkipped ==
    pc = "batched" =>
        /\ \A i \in BadAnnouncementRows(announcement_list) : added[i] = Skipped
        /\ \A k \in BadHolidayRows(calendar_list) : added[Len(announcement_list) + k] = Skipped
        /\ \A i \in BadAnnouncementRows(jq_list) :
               LET less == RemoveAt(jq_list, i) IN
               /\ EventsGiven(AnnouncementOutcomes(MergedAnnouncements(less, jpx_list)))
                      = EventsGiven(AnnouncementPart)
               /\ OutputOf(less, jpx_list, calendar_list) = events
        /\ \A k \in BadHolidayRows(calendar_list) :
               LET less == RemoveAt(calendar_list, k) IN
               /\ EventsGiven(HolidayOutcomes(less)) = EventsGiven(HolidayPart)
               /\ OutputOf(jq_list, jpx_list, less) = events

\* C20 witness: in both lists a record with an unparseable date stood between
\* two records that gave events
C20_Witness ==
    /\ pc = "batched"
    /\ \E i \in BadAnnouncementRows(announcement_list) :
           \E a, b \in AnnouncementsBuilt : a < i /\ i < b
    /\ \E k \in BadHolidayRows(calendar_list) :
           \E a, b \in Built :
               /\ Len(announcement_list) < a
               /\ a < Len(announcement_list) + k
               /\ Len(announcement_list) + k < b
    /\ \E e \in events : e.uid = HolidayPrefix \o Holiday2.Date

(***************************************************************************)
(* Claims about the fallback (checked under SpecFallback).                 *)
(***************************************************************************)
\* the spreadsheets that downloaded and parsed
GoodSheets == {i \in 1..Len(sheets) : sheets[i].ok}

\* their rows, in processing order
GoodRows == Flatten([i \in 1..Len(sheets) |-> IF sheets[i].ok THEN sheets[i].rows ELSE <<>>])

\* C21: the result of JPX.get_fins_announcement is the deduplicated rows of
\* the spreadsheets that downloaded and parsed: every row of the result is a
\* row of such a spreadsheet, every (Code, Date) of such a spreadsheet is in
\* the result wherever a failing spreadsheet stood in the order, and when no
\* spreadsheet is linked or none gives a row the result is the empty list and
\* nothing was raised.
C21_FallbackIsolation ==
    pc = "jpx_done" =>
        /\ jpx_list = DropDuplicates(GoodRows)
        /\ \A n \in 1..Len(jpx_list) :
               \E i \in GoodSheets : \E m \in 1..Len(sheets[i].rows) : sheets[i].rows[m] = jpx_list[n]
        /\ \A i \in GoodSheets : \A m \in 1..Len(sheets[i].rows) :
               \E n \in 1..Len(jpx_list) : /\ jpx_list[n].Code = sheets[i].rows[m].Code
                                            /\ jpx_list[n].Date = sheets[i].rows[m].Date
        /\ (\A i \in GoodSheets : sheets[i].rows = <<>>) => jpx_list = <<>>
        /\ crash = "none"

\* C21 witness: the first spreadsheet failed although it has a row, the second
\* parsed, and the result holds the second's rows
C21_Witness ==
    /\ pc = "jpx_done"
    /\ Len(sheets) = 2
    /\ ~sheets[1].ok /\ sheets[1].rows # <<>>
    /\ sheets[2].ok /\ sheets[2].rows # <<>>
    /\ jpx_list = sheets[2].rows

\* the (Code, Date) pair of a row
CodeDate(r) == <<r.Code, r.Date>>

\* where a (Code, Date) pair first occurs among the parsed rows
FirstOccurrence(k) ==
    CHOOSE n \in 1..Len(GoodRows) :
        /\ CodeDate(GoodRows[n]) = k
        /\ \A m \in 1..(n - 1) : CodeDate(GoodRows[m]) # k

\* C22: the result of JPX.get_fins_announcement holds no (Code, Date) twice;
\* every (Code, Date) of a parsed spreadsheet is in it exactly once, as the
\* row that comes first in processing order, and the rows stand in the order
\* of those first occurrences.
C22_FirstOfEachKey ==
    pc = "jpx_done" =>
        /\ \A n, m \in 1..Len(jpx_list) : CodeDate(jpx_list[n]) = CodeDate(jpx_list[m]) => n = m
        /\ \A g \in 1..Len(GoodRows) :
               LET k == CodeDate(GoodRows[g])
                   at == {n \in 1..Len(jpx_list) : CodeDate(jpx_list[n]) = k}
               IN /\ Cardinality(at) = 1
                  /\ \A n \in at : jpx_list[n] = GoodRows[FirstOccurrence(k)]
        /\ \A n, m \in 1..Len(jpx_list) :
               n < m => FirstOccurrence(CodeDate(jpx_list[n])) < FirstOccurrence(CodeDate(jpx_list[m]))

\* C22 witness: two spreadsheets name one (Code, Date) under different company
\* names, and the result has the row of the spreadsheet processed first
C22_Witness ==
    /\ pc = "jpx_done"
    /\ Len(jpx_list) < Len(GoodRows)
    /\ \E a, b \in 1..Len(GoodRows) :
           /\ a < b
           /\ CodeDate(GoodRows[a]) = CodeDate(GoodRows[b])
           /\ GoodRows[a] # GoodRows[b]
           /\ \E n \in 1..Len(jpx_list) : jpx_list[n] = GoodRows[a]
           /\ \A n \in 1..Len(jpx_list) : jpx_list[n] # GoodRows[b]

(***************************************************************************)
(* Claims about the range extraction (checked under SpecExtract).          *)
(***************************************************************************)
\* the message extract_subscription_period was given
TheMessage == rawResp.body.message.text

\* at i: a date shape, a whitespace characters, '~', b whitespace characters
\* and a date shape
OccursAt(s, i, a, b) ==
    /\ DateShapeAt(s, i)
    /\ i + 10 + a + b <= Len(s)
    /\ \A k \in (i + 10)..(i + 9 + a) : IsSpace(s[k])
    /\ s[i + 10 + a] = "~"
    /\ \A k \in (i + 11 + a)..(i + 10 + a + b) : IsSpace(s[k])
    /\ DateShapeAt(s, i + 11 + a + b)

Occurrences(s) ==
    {o \in {i \in 1..Len(s) : DateShapeAt(s, i)} \X (0..Len(s)) \X (0..Len(s)) :
        OccursAt(s, o[1], o[2], o[3])}

\* C23: extract_subscription_period returns the two dates of the leftmost
\* occurrence of YYYY-MM-DD ~ YYYY-MM-DD in the message, whatever whitespace
\* stands around '~', and (None, None) exactly when there is no occurrence.
C23_LeftmostRange ==
    pc = "extracted" =>
        LET s == TheMessage
            occ == Occurrences(s)
        IN /\ (occ = {}) <=> (subscription = <<None, None>>)
           /\ occ # {} =>
                  \E o \in occ :
                      /\ \A q \in occ : o[1] <= q[1]
                      /\ subscription = <<Sub(s, o[1], o[1] + 9),
                                          Sub(s, o[1] + 11 + o[2] + o[3],
                                              o[1] + 20 + o[2] + o[3])>>

\* C23 witness: the message has text before the range, blanks on both sides
\* of '~' and a second range after the first, and the first range came back
C23_Witness ==
    /\ pc = "extracted"
    /\ subscription = <<Sub2023, Sub2025>>
    /\ \E o, q \in Occurrences(TheMessage) :
           /\ 1 < o[1] /\ o[1] < q[1]
           /\ o[2] > 0 /\ o[3] > 0

(***************************************************************************)
(* Claims about the run, continued (checked under Spec).                   *)
(***************************************************************************)
\* both announcement sources returned no row
NoAnnouncements == jpxInvoked /\ jq_list = <<>> /\ jpx_list = <<>>

\* the three fetches of generate_ics returned no row
UpstreamEmpty == NoAnnouncements /\ returned /\ calendar_list = <<>>

\* C24: when the primary fetch, the fallback fetch and
\* get_trading_calendar_with_retry have all returned zero rows, the run goes
\* on to the end: merging the two empty sources raises nothing and leaves the
\* calendar empty, after the calendar fetch the only step left is the one
\* that writes the file, and the file written holds zero events.
C24_EmptyUpstreamEmptyFile ==
    /\ NoAnnouncements =>
           /\ crash # "concat"
           /\ announcement_list = <<>>
           /\ pc # "done" => events = {}
    /\ UpstreamEmpty =>
           /\ crash = "none"
           /\ pc \in {"holidays", "done"}
           /\ pc = "holidays" => ENABLED HolidaysAndSave
           /\ pc = "done" => file.written /\ file.events = {}

\* C24 witness: every request was answered with status 200 and no row (the
\* raw re-issue of the calendar request too), and the file is written empty
C24_Witness ==
    /\ UpstreamEmpty
    /\ pc = "done"
    /\ rawReqs = 1
    /\ rawResp.kind = "resp" /\ rawResp.status = 200
    /\ file.written /\ file.events = {}

(***************************************************************************)
(* C25                                                                     *)
(***************************************************************************)
\* C25: after a construction and any successful and failed refreshes, an
\* enabled session's Authorization header is 'Bearer ' + the stored id_token
\* and its token_expires_at is set; a disabled session's headers are empty;
\* and no request has gone out with a header naming a token other than the
\* stored one.
C25_SessionConsistent ==
    pc = "session_live" =>
        /\ jq.isEnable => /\ jq.id_token # 0
                          /\ jq.headers = jq.id_token
                          /\ jq.token_expires_at # NoExpiry
        /\ ~jq.isEnable => jq.headers = 0
        /\ fresh.foreign = 0

\* C25 witness: an enabled session after one failed and two successful
\* refreshes, its last request sent under the third token
C25_Witness ==
    /\ pc = "session_live"
    /\ jq.isEnable
    /\ minted = 3
    /\ authReqs = 5
    /\ fresh.needed
    /\ fresh.ok
    /\ fresh.reqs = 1
    /\ jq.headers = 3

(***************************************************************************)
(* C26                                                                     *)
(***************************************************************************)
\* the first structured call of get_trading_calendar_with_retry has returned
FirstReturned == Len(results) >= 1

\* the raw re-issue was answered with status 200
RawAnswered200 == rawReqs >= 1 /\ rawResp.kind # "exc" /\ rawResp.status = 200

\* C26: when the first structured call returns at least one row there is no
\* raw re-issue and no second structured call, and exactly those rows are
\* returned; when it returns no row and the raw re-issue is answered 200,
\* there is no retry (and no extraction) and the empty result is returned.
C26_RecoveryOnlyOnEmpty ==
    /\ (FirstReturned /\ results[1] # <<>>) =>
           /\ rawReqs = 0
           /\ rawResp = Raised
           /\ subscription = <<>>
           /\ Len(calls) = 1
           /\ Len(results) = 1
           /\ returned
           /\ calendar_list = results[1]
    /\ (FirstReturned /\ results[1] = <<>> /\ RawAnswered200) =>
           /\ rawReqs = 1
           /\ subscription = <<>>
           /\ Len(calls) = 1
           /\ Len(results) = 1
           /\ returned
           /\ calendar_list = <<>>

\* C26 witness: the first call gave rows, they were returned and written
\* without any raw request
C26_Witness ==
    /\ pc = "done"
    /\ FirstReturned
    /\ results[1] # <<>>
    /\ calendar_list = results[1]
    /\ rawReqs = 0
    /\ apiReqs >= 2
    /\ file.written

\* the other case of C26: an empty first result, the raw re-issue answered
\* 200, the empty list returned after one structured call
C26_EmptyAnswered200 ==
    /\ pc = "done"
    /\ results = << <<>> >>
    /\ RawAnswered200
    /\ Len(calls) = 1
    /\ calendar_list = <<>>
    /\ file.written

====
